---- MODULE Spec2Model ----
(***************************************************************************)
(* LinkQueue of src/frontend/link_queue.cc: the link emulation engine.     *)
(*                                                                         *)
(* The engine runs on one thread; the driver calls read_packet, wait_time, *)
(* write_packets, pending_output (and mark_finished).  The clock           *)
(* (timestamp()) and the two words of the memory-mapped control file are   *)
(* changed from outside between any two reads the engine makes of them, so *)
(* a call is a sequence of steps, one per evaluation of                    *)
(* next_delivery_time(); everything the code does between two such reads   *)
(* belongs to one step.                                                    *)
(***************************************************************************)
EXTENDS Integers, Sequences, FiniteSets, TLC

VARIABLES
    clock,                         \* what timestamp() returns
    rate_values,                   \* the values word 0 of the control file takes
    log_,                          \* whether the log stream was opened
    ndebug,                        \* assert() is known to be compiled out
    random_permutation_,
    delivered_count_,
    base_timestamp_,
    packet_queue_,
    packet_in_transit_,
    packet_in_transit_bytes_left_,
    output_queue_,
    finished_,
    pc,                            \* where the running call stands
    caller,                        \* which call runs rationalize
    now,                           \* the local `now` of the running call
    contents,                      \* the argument of the running read_packet
    this_delivery_time,            \* the local of rationalize
    ret,                           \* what the step just taken returned to the driver
    departures,                    \* the record_departure calls of the step just taken
    written,                       \* what write_packets has handed to fd
    reads,                         \* the read_packet calls made so far
    grants_in_call,                \* opportunities granted by the running call
    granted_interval,              \* interval of the opportunity being granted
    granted_up,                    \* 1 if that interval was rounded up, else 0
    queue_on_entry,                \* packet_queue_ as the running call found it
    base_on_entry,                 \* base_timestamp_ as the running call found it
    zero_read,                     \* the step just taken read a rate of 0
    completed,                     \* opportunities whose byte accounting is done
    completed_time,                \* delivery time of the last of them
    cycle_ups                      \* intervals rounded up in this cycle of the permutation

engine == <<delivered_count_, base_timestamp_, packet_queue_, packet_in_transit_,
            packet_in_transit_bytes_left_, output_queue_>>
build == <<rate_values, log_, random_permutation_>>
locals == <<pc, caller, now, contents, this_delivery_time, grants_in_call,
            granted_interval, granted_up, queue_on_entry, base_on_entry,
            zero_read>>
ghost == <<written, reads, completed, completed_time, cycle_ups>>
vars == <<clock, build, ndebug, engine, finished_, locals, ret, departures,
          ghost>>

(* ------------------------------ bounds --------------------------------- *)
\* largest payload read_packet accepts and byte budget of one opportunity
PACKET_SIZE == 2
\* length of the dithering permutation
INTERPOLATION_SLOTS == 2
\* the clock stops here
MaxTime == 3
\* read_packet calls in one run
MaxReads == 2

\* values the rate-setting process writes into word 0 of the control file:
\* 12 Mbit/s is one cell a millisecond, 48 Mbit/s four cells a millisecond
Rates == {0, 12000000, 48000000}
\* values it writes into word 1
LinkValues == {0, 1, 2}

(* ------------------------------ values --------------------------------- *)
Min(a, b) == IF a < b THEN a ELSE b
Max(a, b) == IF a > b THEN a ELSE b

\* (uint64_t) -1: what next_delivery_time returns once finished.  A uint64_t is
\* written as the integer it holds, except 2^64 - 1, written -1 as in the code.
Never == 0 - 1

\* a <= b on uint64_t
ULE(a, b) == IF a = Never THEN b = Never ELSE (b = Never \/ a <= b)

\* a uint64_t as four 16-bit limbs, least significant first
Limb == 2 ^ 16
U64(v) == IF v = Never THEN <<Limb - 1, Limb - 1, Limb - 1, Limb - 1>>
          ELSE <<v % Limb, (v \div Limb) % Limb, 0, 0>>

\* a - b on uint64_t (wraps modulo 2^64), limb by limb with borrow
Sub64(a, b) ==
    LET d1 == a[1] - b[1]
        c1 == IF d1 < 0 THEN 1 ELSE 0
        d2 == a[2] - b[2] - c1
        c2 == IF d2 < 0 THEN 1 ELSE 0
        d3 == a[3] - b[3] - c2
        c3 == IF d3 < 0 THEN 1 ELSE 0
        d4 == a[4] - b[4] - c3
    IN  <<d1 % Limb, d2 % Limb, d3 % Limb, d4 % Limb>>

\* conversion of a uint64_t to unsigned int (32 bits): the two low limbs
ToUInt(a) == <<a[1], a[2]>>

\* a std::string holding a payload: which payload it is and its size()
Payload(id, size) == [id |-> id, size |-> size]
\* the empty string "" ; also what a moved-from string holds
EmptyString == Payload(0, 0)
QueuedPacket(c, t) == [contents |-> c, arrival_time |-> t]

SlotPermutations == {p \in [0 .. INTERPOLATION_SLOTS - 1 -> 0 .. INTERPOLATION_SLOTS - 1] :
                    \A i, j \in DOMAIN p : i # j => p[i] # p[j]}

(* ------------------------ next_delivery_time --------------------------- *)
\* (uint64_t) true_interval, for the rate r read from the control file
Interval(r) == (1000 * (8 * 1500)) \div r
\* (uint64_t) ((true_interval - interval) * INTERPOLATION_SLOTS)
RemainderSlots(r) == (((1000 * (8 * 1500)) % r) * INTERPOLATION_SLOTS) \div r
\* the test of line 169 as it would be with < for <=
RoundsUpBelowRemainder(r, count) ==
    random_permutation_[count % INTERPOLATION_SLOTS] < RemainderSlots(r)
\* whether the opportunity numbered count gets the extra millisecond
RoundsUp(r, count) ==
    random_permutation_[count % INTERPOLATION_SLOTS] <= RemainderSlots(r)
\* interval++ or not
Up(r, count) == IF RoundsUp(r, count) THEN 1 ELSE 0
\* the interval after the dithering step
DitheredInterval(r, count) == Interval(r) + Up(r, count)
\* scheduled_time
ScheduledTime(r, count, base) == DitheredInterval(r, count) + base

\* the interval an evaluation computed and whether it rounded it up; an
\* evaluation that returns at line 156 computes none
ComputedInterval(r) ==
    IF finished_ THEN 0 ELSE DitheredInterval(r, delivered_count_)
ComputedUp(r) == IF finished_ THEN 0 ELSE Up(r, delivered_count_)

\* an evaluation of next_delivery_time() gets past line 155 and reads rate 0
ZeroRead(r) == ~finished_ /\ r = 0
\* next_delivery_time() as it would be with 0 for the "never" of line 156
NextDeliveryTimeZeroWhenFinished(r) ==
    IF finished_ THEN 0
    ELSE Max(ScheduledTime(r, delivered_count_, base_timestamp_), clock)
\* next_delivery_time() as it would be returning scheduled_time at line 173
NextDeliveryTimeScheduled(r) ==
    IF finished_ THEN Never
    ELSE ScheduledTime(r, delivered_count_, base_timestamp_)

\* whether next_delivery_time() throws "bps cannot be 0" on reading rate r
NdtThrows(r) == ~finished_ /\ r = 0
\* what next_delivery_time() returns, on reading rate r, when it does not throw
next_delivery_time(r) ==
    IF finished_ THEN Never
    ELSE Max(ScheduledTime(r, delivered_count_, base_timestamp_), clock)

(* ---------------------- rationalize: the inner loop -------------------- *)
\* record_departure as it would be subtracting the departure from the arrival
RecordDepartureBackwards(departure_time, packet) ==
    [id |-> packet.contents.id,
     size |-> packet.contents.size,
     arrival_time |-> packet.arrival_time,
     departure_time |-> departure_time,
     delay |-> Sub64(U64(packet.arrival_time), U64(departure_time))]

\* record_departure( departure_time, packet ): what it logs and meters, the
\* delay being the uint64_t difference departure_time - packet.arrival_time
record_departure(departure_time, packet) ==
    [id |-> packet.contents.id,
     size |-> packet.contents.size,
     arrival_time |-> packet.arrival_time,
     departure_time |-> departure_time,
     delay |-> Sub64(U64(departure_time), U64(packet.arrival_time))]

\* the four assert()s of the loop, on the loop's state s
AssertionsHold(s, delivery_time) ==
    /\ s.pit.arrival_time <= delivery_time
    /\ s.left <= PACKET_SIZE
    /\ s.left > 0
    /\ s.left <= s.pit.contents.size

\* the loop as it would be pushing the payload after every send (line 220
\* without its test)
RECURSIVE TransmitPushingEverySend(_, _, _, _)
TransmitPushingEverySend(s, bytes_left_in_this_delivery, delivery_time, asserts) ==
    IF bytes_left_in_this_delivery = 0 THEN s
    ELSE IF s.left = 0 /\ s.q = <<>> THEN s
    ELSE LET s1 == IF s.left = 0
                   THEN [s EXCEPT !.pit = Head(s.q), !.q = Tail(s.q),
                                  !.left = Head(s.q).contents.size]
                   ELSE s
             holds == AssertionsHold(s1, delivery_time)
         IN  IF asserts /\ ~holds
             THEN [s1 EXCEPT !.aborted = TRUE]
             ELSE LET amount_to_send == Min(bytes_left_in_this_delivery, s1.left)
                      s2 == [s1 EXCEPT !.left = @ - amount_to_send,
                                       !.passed = @ \/ ~holds]
                      s3 == [s2 EXCEPT !.out = Append(@, s2.pit.contents),
                                       !.departed =
                                           Append(@, record_departure(delivery_time,
                                                                      s2.pit))]
                  IN  TransmitPushingEverySend(s3,
                          bytes_left_in_this_delivery - amount_to_send,
                          delivery_time, asserts)

\* while ( bytes_left_in_this_delivery > 0 ) { ... } on the state
\* s = [q: packet_queue_, pit: packet_in_transit_,
\*      left: packet_in_transit_bytes_left_, out: output_queue_,
\*      departed: the record_departure calls made,
\*      aborted: an assert() has ended the process,
\*      passed: a false assert() was passed, so the build has NDEBUG]
\* A false assertion aborts the process unless the build defines NDEBUG;
\* asserts tells whether this run of the loop takes assert() as compiled in.
RECURSIVE Transmit(_, _, _, _)
Transmit(s, bytes_left_in_this_delivery, delivery_time, asserts) ==
    IF bytes_left_in_this_delivery = 0 THEN s
    ELSE IF s.left = 0 /\ s.q = <<>> THEN s
    ELSE LET s1 == IF s.left = 0
                   THEN [s EXCEPT !.pit = Head(s.q), !.q = Tail(s.q),
                                  !.left = Head(s.q).contents.size]
                   ELSE s
             holds == AssertionsHold(s1, delivery_time)
         IN  IF asserts /\ ~holds
             THEN [s1 EXCEPT !.aborted = TRUE]
             ELSE LET amount_to_send == Min(bytes_left_in_this_delivery, s1.left)
                      s2 == [s1 EXCEPT !.left = @ - amount_to_send,
                                       !.passed = @ \/ ~holds]
                      s3 == IF s2.left = 0
                            THEN [s2 EXCEPT !.departed =
                                                Append(@, record_departure(delivery_time,
                                                                           s2.pit)),
                                            !.out = Append(@, s2.pit.contents),
                                            !.pit.contents = EmptyString]
                            ELSE s2
                  IN  Transmit(s3, bytes_left_in_this_delivery - amount_to_send,
                               delivery_time, asserts)

(* ------------------------------ returns -------------------------------- *)
NoValue == <<0, 0>>
Result(kind, val) == [kind |-> kind, val |-> val]
\* the step ended no call
NoResult == Result("none", NoValue)

\* a read_packet call: the size of its payload, what became of the call, and
\* what word 1 of the control file read at line 147 (NotRead if never read)
NotRead == 0 - 1
ReadCall(size, fate, link_on) == [size |-> size, fate |-> fate, link_on |-> link_on]
\* the running read_packet ends with fate f, having read link_on
Fate(f, link_on) ==
    IF caller = "read"
    THEN [reads EXCEPT ![Len(reads)] = ReadCall(@.size, f, link_on)]
    ELSE reads

\* the locals of a call that is over are gone
NoLocals ==
    /\ caller' = "none"
    /\ now' = 0
    /\ contents' = EmptyString
    /\ this_delivery_time' = 0
    /\ grants_in_call' = 0
    /\ granted_interval' = 0
    /\ granted_up' = 0
    /\ queue_on_entry' = <<>>
    /\ base_on_entry' = 0
    /\ zero_read' = FALSE

\* the running call goes on, at pc value p
Continue(p) ==
    /\ pc' = p
    /\ ret' = NoResult
    /\ UNCHANGED <<caller, now, contents, queue_on_entry, base_on_entry>>

\* the running call returns (or throws) to the driver; its locals stay in
\* view for the one state in which ret shows the result
Return(res) ==
    /\ pc' = "idle"
    /\ ret' = res
    /\ UNCHANGED <<caller, now, contents, this_delivery_time, grants_in_call,
                   granted_interval, granted_up, queue_on_entry, base_on_entry>>

\* throw runtime_error( "bps cannot be 0" ) out of the running call
ThrowZeroRate ==
    /\ Return(Result("bps0", NoValue))
    /\ reads' = Fate("error", NotRead)
    /\ UNCHANGED <<engine, ndebug, completed, completed_time, cycle_ups>>

(* --------------------- use_a_delivery_opportunity ---------------------- *)
\* the opportunity as it would be granted with base_timestamp_ advanced by the
\* interval instead of set to the delivery time (line 181)
GrantOnNominalSchedule(delivery_time, interval, up) ==
    \E asserts \in (IF ndebug THEN {FALSE} ELSE BOOLEAN) :
      LET s == Transmit([q |-> packet_queue_, pit |-> packet_in_transit_,
                         left |-> packet_in_transit_bytes_left_,
                         out |-> output_queue_, departed |-> <<>>,
                         aborted |-> FALSE, passed |-> FALSE],
                        PACKET_SIZE, delivery_time, asserts)
      IN  /\ base_timestamp_' = base_timestamp_ + interval
          /\ delivered_count_' = delivered_count_ + 1
          /\ packet_queue_' = s.q
          /\ packet_in_transit_' = s.pit
          /\ packet_in_transit_bytes_left_' = s.left
          /\ output_queue_' = s.out
          /\ departures' = s.departed
          /\ ndebug' = (ndebug \/ s.passed)
          /\ grants_in_call' = grants_in_call + 1
          /\ granted_interval' = interval
          /\ granted_up' = up
          /\ this_delivery_time' = delivery_time
          /\ completed' = IF s.aborted THEN completed ELSE completed + 1
          /\ completed_time' = IF s.aborted THEN completed_time ELSE delivery_time
          /\ cycle_ups' = (IF delivered_count_ % INTERPOLATION_SLOTS = 0
                           THEN 0 ELSE cycle_ups) + up
          /\ UNCHANGED reads
          /\ Continue(IF s.aborted THEN "aborted" ELSE "cond")

\* the opportunity as it would be with a budget of two cells (line 194)
GrantWithDoubleBudget(delivery_time, interval, up) ==
    \E asserts \in (IF ndebug THEN {FALSE} ELSE BOOLEAN) :
      LET s == Transmit([q |-> packet_queue_, pit |-> packet_in_transit_,
                         left |-> packet_in_transit_bytes_left_,
                         out |-> output_queue_, departed |-> <<>>,
                         aborted |-> FALSE, passed |-> FALSE],
                        2 * PACKET_SIZE, delivery_time, asserts)
      IN  /\ base_timestamp_' = delivery_time
          /\ delivered_count_' = delivered_count_ + 1
          /\ packet_queue_' = s.q
          /\ packet_in_transit_' = s.pit
          /\ packet_in_transit_bytes_left_' = s.left
          /\ output_queue_' = s.out
          /\ departures' = s.departed
          /\ ndebug' = (ndebug \/ s.passed)
          /\ grants_in_call' = grants_in_call + 1
          /\ granted_interval' = interval
          /\ granted_up' = up
          /\ this_delivery_time' = delivery_time
          /\ completed' = IF s.aborted THEN completed ELSE completed + 1
          /\ completed_time' = IF s.aborted THEN completed_time ELSE delivery_time
          /\ cycle_ups' = (IF delivered_count_ % INTERPOLATION_SLOTS = 0
                           THEN 0 ELSE cycle_ups) + up
          /\ UNCHANGED reads
          /\ Continue(IF s.aborted THEN "aborted" ELSE "cond")

\* lines 181-182, then lines 194-226 of rationalize for this opportunity: the
\* base timestamp and the counter advance, then the budget of one cell is
\* spent on the queue
Grant(delivery_time, interval, up) ==
    \E asserts \in (IF ndebug THEN {FALSE} ELSE BOOLEAN) :
      LET s == Transmit([q |-> packet_queue_, pit |-> packet_in_transit_,
                         left |-> packet_in_transit_bytes_left_,
                         out |-> output_queue_, departed |-> <<>>,
                         aborted |-> FALSE, passed |-> FALSE],
                        PACKET_SIZE, delivery_time, asserts)
      IN  /\ base_timestamp_' = delivery_time
          /\ delivered_count_' = delivered_count_ + 1
          /\ packet_queue_' = s.q
          /\ packet_in_transit_' = s.pit
          /\ packet_in_transit_bytes_left_' = s.left
          /\ output_queue_' = s.out
          /\ departures' = s.departed
          /\ ndebug' = (ndebug \/ s.passed)
          /\ grants_in_call' = grants_in_call + 1
          /\ granted_interval' = interval
          /\ granted_up' = up
          /\ this_delivery_time' = delivery_time
          /\ completed' = IF s.aborted THEN completed ELSE completed + 1
          /\ completed_time' = IF s.aborted THEN completed_time ELSE delivery_time
          /\ cycle_ups' = (IF delivered_count_ % INTERPOLATION_SLOTS = 0
                           THEN 0 ELSE cycle_ups) + up
          /\ UNCHANGED reads
          /\ Continue(IF s.aborted THEN "aborted" ELSE "cond")

\* use_a_delivery_opportunity as it would be with delivered_count_++ ahead of
\* record_departure_opportunity()
UseCountingBeforeLog(delivery_time, interval, up, r) ==
    IF log_ /\ NdtThrows(r)
    THEN /\ Return(Result("bps0", NoValue))
         /\ reads' = Fate("error", NotRead)
         /\ delivered_count_' = delivered_count_ + 1
         /\ departures' = <<>>
         /\ UNCHANGED <<base_timestamp_, packet_queue_, packet_in_transit_,
                        packet_in_transit_bytes_left_, output_queue_, ndebug,
                        completed, completed_time, cycle_ups>>
    ELSE Grant(delivery_time, interval, up)

\* use_a_delivery_opportunity( delivery_time ) and the rest of the loop body.
\* With a log, record_departure_opportunity evaluates next_delivery_time()
\* once more, reading rate r, before anything is updated.  interval is the
\* interval delivery_time was computed with, up whether it was rounded up.
use_a_delivery_opportunity(delivery_time, interval, up, r) ==
    IF log_ /\ NdtThrows(r)
    THEN ThrowZeroRate /\ departures' = <<>>
    ELSE Grant(delivery_time, interval, up)

(* ------------------------------ the calls ------------------------------ *)
\* read_packet as it would be with an opportunity used before the size check
ReadPacketCheckingLate(size) ==
    /\ pc = "idle"
    /\ departures' = <<>>
    /\ Len(reads) < MaxReads
    /\ IF size > PACKET_SIZE
       THEN /\ ret' = Result("oversize", NoValue)
            /\ reads' = Append(reads, ReadCall(size, "oversize", NotRead))
            /\ pc' = "idle"
            /\ NoLocals
            /\ base_timestamp_' = clock
            /\ delivered_count_' = delivered_count_ + 1
       ELSE /\ ret' = NoResult
            /\ reads' = Append(reads, ReadCall(size, "running", NotRead))
            /\ pc' = "cond"
            /\ caller' = "read"
            /\ now' = clock
            /\ contents' = Payload(Len(reads) + 1, size)
            /\ this_delivery_time' = 0
            /\ grants_in_call' = 0
            /\ granted_interval' = 0
            /\ granted_up' = 0
            /\ queue_on_entry' = packet_queue_
            /\ base_on_entry' = base_timestamp_
            /\ zero_read' = FALSE
            /\ UNCHANGED <<base_timestamp_, delivered_count_>>
    /\ UNCHANGED <<clock, build, ndebug, packet_queue_, packet_in_transit_,
                   packet_in_transit_bytes_left_, output_queue_, finished_,
                   written, completed, completed_time, cycle_ups>>

\* read_packet( contents ), lines 137-143
ReadPacket(size) ==
    /\ pc = "idle"
    /\ departures' = <<>>
    /\ Len(reads) < MaxReads
    /\ IF size > PACKET_SIZE
       THEN /\ ret' = Result("oversize", NoValue)
            /\ reads' = Append(reads, ReadCall(size, "oversize", NotRead))
            /\ pc' = "idle"
            /\ NoLocals
       ELSE /\ ret' = NoResult
            /\ reads' = Append(reads, ReadCall(size, "running", NotRead))
            /\ pc' = "cond"
            /\ caller' = "read"
            /\ now' = clock
            /\ contents' = Payload(Len(reads) + 1, size)
            /\ this_delivery_time' = 0
            /\ grants_in_call' = 0
            /\ granted_interval' = 0
            /\ granted_up' = 0
            /\ queue_on_entry' = packet_queue_
            /\ base_on_entry' = base_timestamp_
            /\ zero_read' = FALSE
    /\ UNCHANGED <<clock, build, ndebug, engine, finished_, written, completed,
                   completed_time, cycle_ups>>

\* lines 145-150 as they would be with "if ( link_on )" at line 148
ReadPacketTailAnyNonzero(link_on) ==
    IF link_on # 0
    THEN /\ packet_queue_' = Append(packet_queue_, QueuedPacket(contents, now))
         /\ Return(Result("read", NoValue))
         /\ reads' = Fate("returned", link_on)
         /\ UNCHANGED <<delivered_count_, base_timestamp_, packet_in_transit_,
                        packet_in_transit_bytes_left_, output_queue_, ndebug,
                        completed, completed_time, cycle_ups>>
    ELSE /\ Return(Result("read", NoValue))
         /\ reads' = Fate("returned", link_on)
         /\ UNCHANGED <<engine, ndebug, completed, completed_time, cycle_ups>>

\* read_packet, lines 145-150, once rationalize has returned; word 1 of the
\* control file reads link_on
ReadPacketTail(link_on) ==
    IF link_on = 1
    THEN /\ packet_queue_' = Append(packet_queue_, QueuedPacket(contents, now))
         /\ Return(Result("read", NoValue))
         /\ reads' = Fate("returned", link_on)
         /\ UNCHANGED <<delivered_count_, base_timestamp_, packet_in_transit_,
                        packet_in_transit_bytes_left_, output_queue_, ndebug,
                        completed, completed_time, cycle_ups>>
    ELSE /\ Return(Result("read", NoValue))
         /\ reads' = Fate("returned", link_on)
         /\ UNCHANGED <<engine, ndebug, completed, completed_time, cycle_ups>>

\* wait_time(), lines 240-242
WaitTime ==
    /\ pc = "idle"
    /\ departures' = <<>>
    /\ ret' = NoResult
    /\ pc' = "cond"
    /\ caller' = "wait"
    /\ now' = clock
    /\ contents' = EmptyString
    /\ this_delivery_time' = 0
    /\ grants_in_call' = 0
    /\ granted_interval' = 0
    /\ granted_up' = 0
    /\ queue_on_entry' = packet_queue_
    /\ base_on_entry' = base_timestamp_
    /\ zero_read' = FALSE
    /\ UNCHANGED <<clock, build, ndebug, engine, finished_, ghost>>

\* rationalize, line 190: the loop condition
RationalizeCondition(r, link_on) ==
    /\ pc = "cond"
    /\ departures' = <<>>
    /\ IF NdtThrows(r) THEN ThrowZeroRate
       ELSE IF ULE(next_delivery_time(r), now)
       THEN /\ Continue("body")
            /\ UNCHANGED <<engine, ndebug, this_delivery_time, grants_in_call,
                           granted_interval, granted_up, reads, completed,
                           completed_time, cycle_ups>>
       ELSE IF caller = "read" THEN ReadPacketTail(link_on)
       ELSE /\ Continue("wait244")
            /\ UNCHANGED <<engine, ndebug, this_delivery_time, grants_in_call,
                           granted_interval, granted_up, reads, completed,
                           completed_time, cycle_ups>>
    /\ zero_read' = ZeroRead(r)
    /\ UNCHANGED <<clock, build, finished_, written>>

\* rationalize, line 191 (and, without a log, the rest of the loop body)
RationalizeBody(r) ==
    /\ pc = "body"
    /\ IF NdtThrows(r) THEN ThrowZeroRate /\ departures' = <<>>
       ELSE IF log_
       THEN /\ Continue("use")
            /\ departures' = <<>>
            /\ this_delivery_time' = next_delivery_time(r)
            /\ granted_interval' = ComputedInterval(r)
            /\ granted_up' = ComputedUp(r)
            /\ UNCHANGED <<engine, ndebug, grants_in_call, reads, completed,
                           completed_time, cycle_ups>>
       ELSE use_a_delivery_opportunity(next_delivery_time(r),
                                       ComputedInterval(r), ComputedUp(r), r)
    /\ zero_read' = ZeroRead(r)
    /\ UNCHANGED <<clock, build, finished_, written>>

\* rationalize, lines 194-226, entered through record_departure_opportunity
\* when there is a log
RationalizeUse(r) ==
    /\ pc = "use"
    /\ use_a_delivery_opportunity(this_delivery_time, granted_interval,
                                  granted_up, r)
    /\ zero_read' = ZeroRead(r)
    /\ UNCHANGED <<clock, build, finished_, written>>

\* wait_time, line 244
WaitTimeDue(r) ==
    /\ pc = "wait244"
    /\ departures' = <<>>
    /\ IF NdtThrows(r) THEN ThrowZeroRate
       ELSE IF ULE(next_delivery_time(r), now)
       THEN /\ Return(Result("wait", NoValue))
            /\ UNCHANGED <<engine, ndebug, reads, completed, completed_time,
                           cycle_ups>>
       ELSE /\ Continue("wait247")
            /\ UNCHANGED <<engine, ndebug, this_delivery_time, grants_in_call,
                           granted_interval, granted_up, reads, completed,
                           completed_time, cycle_ups>>
    /\ zero_read' = ZeroRead(r)
    /\ UNCHANGED <<clock, build, finished_, written>>

\* line 247 as it would be with the operands of the subtraction exchanged
WaitTimeValueExchanged(r) == ToUInt(Sub64(U64(now), U64(next_delivery_time(r))))

\* wait_time, line 247: the difference, converted to unsigned int
WaitTimeValue(r) == ToUInt(Sub64(U64(next_delivery_time(r)), U64(now)))

WaitTimeReturn(r) ==
    /\ pc = "wait247"
    /\ departures' = <<>>
    /\ IF NdtThrows(r) THEN ThrowZeroRate
       ELSE /\ Return(Result("wait", WaitTimeValue(r)))
            /\ UNCHANGED <<engine, ndebug, reads, completed, completed_time,
                           cycle_ups>>
    /\ zero_read' = ZeroRead(r)
    /\ UNCHANGED <<clock, build, finished_, written>>

\* write_packets as it would be taking the payloads from the back of the queue
WritePacketsFromBack ==
    /\ pc = "idle"
    /\ departures' = <<>>
    /\ output_queue_ # <<>>
    /\ written' = written \o [i \in 1 .. Len(output_queue_) |->
                                 output_queue_[Len(output_queue_) + 1 - i]]
    /\ output_queue_' = <<>>
    /\ ret' = Result("written", NoValue)
    /\ pc' = "idle"
    /\ NoLocals
    /\ UNCHANGED <<clock, build, ndebug, delivered_count_, base_timestamp_,
                   packet_queue_, packet_in_transit_,
                   packet_in_transit_bytes_left_, finished_, reads, completed,
                   completed_time, cycle_ups>>

\* write_packets( fd )
WritePackets ==
    /\ pc = "idle"
    /\ departures' = <<>>
    /\ output_queue_ # <<>>
    /\ written' = written \o output_queue_
    /\ output_queue_' = <<>>
    /\ ret' = Result("written", NoValue)
    /\ pc' = "idle"
    /\ NoLocals
    /\ UNCHANGED <<clock, build, ndebug, delivered_count_, base_timestamp_,
                   packet_queue_, packet_in_transit_,
                   packet_in_transit_bytes_left_, finished_, reads, completed,
                   completed_time, cycle_ups>>

\* pending_output as it would be taking the front payload off the queue
PendingOutputPopping ==
    /\ pc = "idle"
    /\ departures' = <<>>
    /\ ret' = Result("pending", <<IF output_queue_ # <<>> THEN 1 ELSE 0, 0>>)
    /\ output_queue_' = IF output_queue_ # <<>> THEN Tail(output_queue_) ELSE <<>>
    /\ pc' = "idle"
    /\ NoLocals
    /\ UNCHANGED <<clock, build, ndebug, delivered_count_, base_timestamp_,
                   packet_queue_, packet_in_transit_,
                   packet_in_transit_bytes_left_, finished_, ghost>>

\* pending_output()
PendingOutput ==
    /\ pc = "idle"
    /\ departures' = <<>>
    /\ ret' = Result("pending", <<IF output_queue_ # <<>> THEN 1 ELSE 0, 0>>)
    /\ pc' = "idle"
    /\ NoLocals
    /\ UNCHANGED <<clock, build, ndebug, engine, finished_, ghost>>

\* mark_finished(): the driver's end-of-stream transition
MarkFinished ==
    /\ pc = "idle"
    /\ departures' = <<>>
    /\ ~finished_
    /\ finished_' = TRUE
    /\ ret' = Result("finished", NoValue)
    /\ pc' = "idle"
    /\ NoLocals
    /\ UNCHANGED <<clock, build, ndebug, engine, ghost>>

(* --------------------------- the environment --------------------------- *)
\* the clock advances by a millisecond, between two calls or between two
\* steps of the running call
Tick ==
    /\ pc # "aborted"
    /\ departures' = <<>>
    /\ clock < MaxTime
    /\ clock' = clock + 1
    /\ ret' = NoResult
    /\ IF pc = "idle" THEN pc' = "idle" /\ NoLocals ELSE UNCHANGED locals
    /\ UNCHANGED <<build, ndebug, engine, finished_, ghost>>

\* The clock advancing without end.  The engine compares timestamps and
\* never looks at how far apart they are beyond the largest interval (2 ms at
\* the rates above), so a tick with the clock at MaxTime is taken as moving
\* the origin of time: the clock reads MaxTime again and every timestamp the
\* engine holds is one less, a timestamp MaxTime or more behind the clock
\* staying at 0.  Likewise the engine uses delivered_count_ only modulo
\* INTERPOLATION_SLOTS, and the whole cycles counted are taken off.
Shift(t) == IF t > 0 THEN t - 1 ELSE 0
ShiftQueue(q) == [i \in 1 .. Len(q) |-> [q[i] EXCEPT !.arrival_time = Shift(@)]]
TickAtHorizon ==
    /\ pc # "aborted"
    /\ clock = MaxTime
    /\ clock' = clock
    /\ base_timestamp_' = Shift(base_timestamp_)
    /\ packet_queue_' = ShiftQueue(packet_queue_)
    /\ packet_in_transit_' = [packet_in_transit_ EXCEPT !.arrival_time = Shift(@)]
    /\ completed_time' = Shift(completed_time)
    /\ delivered_count_' = delivered_count_ % INTERPOLATION_SLOTS
    /\ completed' = completed - (delivered_count_ - (delivered_count_ % INTERPOLATION_SLOTS))
    /\ ret' = NoResult
    /\ departures' = <<>>
    /\ IF pc = "idle"
       THEN pc' = "idle" /\ NoLocals
       ELSE /\ now' = Shift(now)
            /\ this_delivery_time' = Shift(this_delivery_time)
            /\ base_on_entry' = Shift(base_on_entry)
            /\ queue_on_entry' = ShiftQueue(queue_on_entry)
            /\ UNCHANGED <<pc, caller, contents, grants_in_call,
                           granted_interval, granted_up, zero_read>>
    /\ UNCHANGED <<build, ndebug, packet_in_transit_bytes_left_, output_queue_,
                   finished_, written, reads, cycle_ups>>

(* --------------------------- specification ----------------------------- *)
\* the state the constructor leaves (lines 26-44)
InitEngine ==
    /\ clock = 0
    /\ log_ \in BOOLEAN
    /\ ndebug = FALSE
    /\ random_permutation_ \in SlotPermutations
    /\ delivered_count_ = 0
    /\ base_timestamp_ = clock
    /\ packet_queue_ = <<>>
    /\ packet_in_transit_ = QueuedPacket(EmptyString, 0)
    /\ packet_in_transit_bytes_left_ = 0
    /\ output_queue_ = <<>>
    /\ finished_ = FALSE
    /\ pc = "idle"
    /\ caller = "none"
    /\ now = 0
    /\ contents = EmptyString
    /\ this_delivery_time = 0
    /\ ret = NoResult
    /\ departures = <<>>
    /\ written = <<>>
    /\ reads = <<>>
    /\ grants_in_call = 0
    /\ granted_interval = 0
    /\ granted_up = 0
    /\ queue_on_entry = <<>>
    /\ base_on_entry = 0
    /\ zero_read = FALSE
    /\ completed = 0
    /\ completed_time = clock
    /\ cycle_ups = 0

\* the rate-setting process writes any of Rates at any time
Init == InitEngine /\ rate_values = Rates

\* the rate-setting process keeps one nonzero rate
InitFixedRate == InitEngine /\ \E r \in Rates \ {0} : rate_values = {r}

Next ==
    \/ \E size \in 0 .. PACKET_SIZE + 1 : ReadPacket(size)
    \/ WaitTime
    \/ \E r \in rate_values, link_on \in LinkValues : RationalizeCondition(r, link_on)
    \/ \E r \in rate_values : RationalizeBody(r)
    \/ \E r \in rate_values : RationalizeUse(r)
    \/ \E r \in rate_values : WaitTimeDue(r)
    \/ \E r \in rate_values : WaitTimeReturn(r)
    \/ WritePackets
    \/ PendingOutput
    \/ MarkFinished
    \/ Tick

Spec == Init /\ [][Next]_vars

SpecFixedRate == InitFixedRate /\ [][Next]_vars

\* a step of the running call
CallStep ==
    \/ \E r \in rate_values, link_on \in LinkValues : RationalizeCondition(r, link_on)
    \/ \E r \in rate_values : RationalizeBody(r)
    \/ \E r \in rate_values : RationalizeUse(r)
    \/ \E r \in rate_values : WaitTimeDue(r)
    \/ \E r \in rate_values : WaitTimeReturn(r)

\* the engine that is never finished, with a constant nonzero rate and a clock
\* that advances without end
NextLive ==
    \/ \E size \in 0 .. PACKET_SIZE + 1 : ReadPacket(size)
    \/ WaitTime
    \/ CallStep
    \/ WritePackets
    \/ Tick
    \/ TickAtHorizon

\* a call is running: the thread of the engine is between two steps of
\* read_packet or wait_time, which is exactly when CallStep is enabled
InCall == pc \in {"cond", "body", "use", "wait244", "wait247"}

\* the clock keeps advancing, the driver keeps calling wait_time, and the
\* thread of the engine keeps running the call it is in (weak fairness of
\* CallStep, written out with InCall as its enabling condition)
Fairness ==
    /\ WF_vars(Tick \/ TickAtHorizon)
    /\ WF_vars(WaitTime)
    /\ []<>(~InCall) \/ []<><<CallStep>>_vars

SpecLive == InitFixedRate /\ [][NextLive]_vars /\ Fairness

(* ------------------------ what the claims speak of --------------------- *)
\* the payloads of the packets of a queue, in order
PayloadsOf(q) == [i \in 1 .. Len(q) |-> q[i].contents]
\* the payload packet_in_transit_ holds (its string has not been moved out)
InTransit == IF packet_in_transit_.contents # EmptyString
             THEN <<packet_in_transit_.contents>>
             ELSE <<>>
\* everything ever appended to the Output Buffer
Output == written \o output_queue_
\* every payload the engine holds or has put out
Held == Output \o InTransit \o PayloadsOf(packet_queue_)
IdsOf(payloads) == {payloads[i].id : i \in 1 .. Len(payloads)}
\* the read_packet calls that got to line 147 and found the link enabled
Accepted == {i \in 1 .. Len(reads) :
                reads[i].fate = "returned" /\ reads[i].link_on = 1}
\* those that found it disabled
Discarded == {i \in 1 .. Len(reads) :
                 reads[i].fate = "returned" /\ reads[i].link_on # 1}
RECURSIVE Bytes(_)
Bytes(payloads) == IF payloads = <<>> THEN 0
                   ELSE Head(payloads).size + Bytes(Tail(payloads))
RECURSIVE AcceptedBytes(_)
AcceptedBytes(n) == IF n = 0 THEN 0
                    ELSE AcceptedBytes(n - 1)
                         + (IF n \in Accepted THEN reads[n].size ELSE 0)
\* q is what is left of p after taking packets from its front
IsSuffix(q, p) == /\ Len(q) <= Len(p)
                  /\ q = SubSeq(p, Len(p) - Len(q) + 1, Len(p))
\* the read_packet call that has just returned
LastRead == reads[Len(reads)]

(* -------------------------------- C1 ----------------------------------- *)
\* C1: the accepted packets are exactly the packets in the packet queue, in
\* the in-transit slot and in what was appended to the Output Buffer, each
\* once and with its payload size, so that with the queue and the slot empty
\* the bytes put out are the bytes accepted.
Conservation ==
    /\ \A i, j \in 1 .. Len(Held) : i # j => Held[i].id # Held[j].id
    /\ IdsOf(Held) = Accepted
    /\ \A i \in 1 .. Len(Held) : Held[i].size = reads[Held[i].id].size
    /\ (packet_queue_ = <<>> /\ InTransit = <<>>)
          => Bytes(Output) = AcceptedBytes(Len(reads))

\* one packet has been written out and a fragment of the next is in transit
ConservationWitness ==
    /\ Len(written) = 1
    /\ packet_in_transit_bytes_left_ > 0
    /\ packet_in_transit_bytes_left_ < packet_in_transit_.contents.size

(* -------------------------------- C2 ----------------------------------- *)
\* a packet read while the link word was not 1 is nowhere in the engine
DiscardedNeverHeld == IdsOf(Held) \cap Discarded = {}
\* a read_packet call that found the link disabled has just returned
DisabledReadReturned ==
    ret.kind = "read" /\ caller = "read" /\ LastRead.link_on # 1

\* C2 as stated: a packet read while the link is disabled is never enqueued,
\* the queue is unchanged by that call, and the packet is never put out.
LinkDisabledQueueUnchanged ==
    /\ DiscardedNeverHeld
    /\ DisabledReadReturned => packet_queue_ = queue_on_entry

\* C2 as amended: a packet read while the link is disabled is never enqueued
\* (the call adds nothing to the queue, though its rationalize may take
\* packets from the front) and is never put out, also after re-enabling.
LinkDisabledNeverEnqueued ==
    /\ DiscardedNeverHeld
    /\ DisabledReadReturned => IsSuffix(packet_queue_, queue_on_entry)

\* a packet was discarded, the link came back, and a later packet went out
LinkDisabledWitness ==
    \E i, j \in 1 .. Len(reads) :
        /\ i < j
        /\ i \in Discarded
        /\ j \in IdsOf(Output)

(* -------------------------------- C3 ----------------------------------- *)
\* C3: once finished_ is set it stays set, and from then on no opportunity
\* is granted: the counter and the base timestamp keep their values and
\* nothing is appended to the Output Buffer, which write_packets still drains.
FinishedIsTerminal ==
    [][finished_ => /\ finished_'
                    /\ delivered_count_' = delivered_count_
                    /\ base_timestamp_' = base_timestamp_
                    /\ written' \o output_queue_' = Output
                    /\ ret'.kind = "written" => output_queue_' = <<>>]_vars

\* finished with a packet still queued and an opportunity overdue; wait_time
\* has just returned and what was put out before has been drained
FinishedWitness ==
    /\ finished_
    /\ ret.kind = "wait"
    /\ packet_queue_ # <<>>
    /\ clock >= base_timestamp_ + 2
    /\ written # <<>>
    /\ output_queue_ = <<>>

(* -------------------------------- C4 ----------------------------------- *)
\* C4: a read_packet call made once finished, with the link enabled and a
\* payload within the size limit, leaves the packet queue as it found it.
NoEnqueueOnceFinished ==
    (finished_ /\ ret.kind = "read" /\ caller = "read" /\ LastRead.link_on = 1)
        => packet_queue_ = queue_on_entry

(* -------------------------------- C5 ----------------------------------- *)
\* UINT_MAX, the largest unsigned int
UIntMax == <<Limb - 1, Limb - 1>>
\* C5: once finished, wait_time returns the "never" sentinel whatever the
\* clock reads.
WaitNeverDueOnceFinished ==
    (finished_ /\ ret.kind = "wait") => ret.val = UIntMax

(* -------------------------------- C6 ----------------------------------- *)
\* C6: a read_packet call with a payload above PACKET_SIZE ends with the
\* error and leaves the engine as it was: counter, base timestamp, queue,
\* in-transit packet and Output Buffer, and no opportunity is granted.
OversizeRejected ==
    [][(Len(reads') > Len(reads) /\ reads'[Len(reads')].size > PACKET_SIZE)
          => /\ ret'.kind = "oversize"
             /\ pc' = "idle"
             /\ UNCHANGED <<engine, finished_, completed, completed_time>>]_vars

\* an oversized payload is refused while a packet waits and an opportunity
\* is overdue
OversizeWitness ==
    /\ ret.kind = "oversize"
    /\ ~finished_
    /\ packet_queue_ # <<>>
    /\ clock >= base_timestamp_ + 2

(* -------------------------------- C7 ----------------------------------- *)
\* bytes_left is 0, or counts bytes of the payload the slot holds
BytesLeftInRange ==
    \/ packet_in_transit_bytes_left_ = 0
    \/ /\ packet_in_transit_bytes_left_ > 0
       /\ packet_in_transit_bytes_left_ <= packet_in_transit_.contents.size
       /\ packet_in_transit_.contents.size <= PACKET_SIZE
\* C7: an evaluation that reads rate 0 while not finished ends the call with
\* the configuration error, and in the state the error leaves every counted
\* opportunity has had its base-timestamp update and its byte accounting,
\* bytes_left is in range and the packet of a failing read_packet is not
\* enqueued.
ZeroRateErrorAtomic ==
    /\ zero_read => ret.kind = "bps0"
    /\ ret.kind = "bps0" =>
          /\ ~finished_
          /\ pc = "idle"
          /\ delivered_count_ = completed
          /\ base_timestamp_ = completed_time
          /\ BytesLeftInRange
          /\ caller = "read" =>
                /\ LastRead.fate = "error"
                /\ contents.id \notin IdsOf(Held)

\* read_packet failed on a rate that became 0 after the call had granted an
\* opportunity that sent a queued packet
ZeroRateWitness ==
    /\ ret.kind = "bps0"
    /\ caller = "read"
    /\ grants_in_call >= 1
    /\ output_queue_ # <<>>

(* -------------------------------- C8 ----------------------------------- *)
\* the one rate of a run in which the rate is held constant
TheRate == CHOOSE r \in rate_values : TRUE
RoundedSlots(r) ==
    (2 * (((1000 * (8 * 1500)) % r) * INTERPOLATION_SLOTS) + r) \div (2 * r)
\* C9: with the rate held constant, when a cycle of the permutation is
\* complete the number of its intervals that were rounded up is
\* round(f x INTERPOLATION_SLOTS), and 0 for a whole number of milliseconds.
DitheringExact ==
    (delivered_count_ > 0 /\ delivered_count_ % INTERPOLATION_SLOTS = 0)
        => cycle_ups = RoundedSlots(TheRate)

(* -------------------------------- C10 ---------------------------------- *)
\* C10: an opportunity is granted at max(base_timestamp_ + interval, t) for
\* a clock reading t taken during the call, and base_timestamp_ becomes that
\* time, so consecutive opportunities are at least the later one's interval
\* apart; the first opportunity a call grants is at the call's now or later,
\* whatever the stall before it, so a further one is scheduled from now, and
\* the number a call grants is bounded by the length of the permutation,
\* not by the stall.
NoBanking ==
    [][delivered_count_' # delivered_count_
          => /\ delivered_count_' = delivered_count_ + 1
             /\ \E t \in now .. clock :
                   base_timestamp_' = Max(base_timestamp_ + granted_interval', t)
             /\ grants_in_call >= 1 => base_timestamp_ = now
             /\ grants_in_call' <= INTERPOLATION_SLOTS]_vars

\* after a stall of MaxTime milliseconds (more than two intervals of the
\* slower rate) a call granted its one opportunity, at now, and returned
NoBankingWitness ==
    /\ ret.kind = "wait"
    /\ now = MaxTime
    /\ delivered_count_ = 1
    /\ grants_in_call = 1
    /\ granted_interval >= 1
    /\ base_timestamp_ = now

(* -------------------------------- C11 ---------------------------------- *)
\* the opportunities the schedule of the constant rate places at or before
\* until, counted from base_timestamp_ = base and delivered_count_ = count
RECURSIVE NominalCount(_, _, _)
NominalCount(base, count, until) ==
    IF ScheduledTime(TheRate, count, base) <= until
    THEN 1 + NominalCount(ScheduledTime(TheRate, count, base), count + 1, until)
    ELSE 0
\* a wait_time call has returned, the clock reading now from its first step
\* to its last
WaitReturnedAtNow == ret.kind = "wait" /\ ~finished_ /\ clock = now

AppendedToOutput == SubSeq(output_queue_', Len(output_queue_) + 1, Len(output_queue_'))
\* C12: with PACKET_SIZE both the largest payload and the cell, a payload of
\* 0 < r < cell bytes (k = 0) that is alone, queued with nothing in transit,
\* departs in the first opportunity granted (k + 1 = 1); every departure is
\* recorded for the packet whose last bytes the opportunity sent, at that
\* opportunity's timestamp, with delay departure_time - arrival_time, the
\* arrival never being later than the departure.
FragmentationCorrect ==
    [][delivered_count_' # delivered_count_
          => /\ Len(departures') = Len(AppendedToOutput)
             /\ \A i \in 1 .. Len(departures') :
                   /\ departures'[i].id = AppendedToOutput[i].id
                   /\ departures'[i].size = AppendedToOutput[i].size
                   /\ departures'[i].departure_time = base_timestamp_'
                   /\ departures'[i].arrival_time <= departures'[i].departure_time
                   /\ departures'[i].delay =
                         U64(departures'[i].departure_time
                             - departures'[i].arrival_time)
             /\ (/\ packet_in_transit_bytes_left_ = 0
                 /\ Len(packet_queue_) = 1
                 /\ Head(packet_queue_).contents.size \in 1 .. PACKET_SIZE - 1)
                   => /\ Len(departures') = 1
                      /\ departures'[1].id = Head(packet_queue_).contents.id
                      /\ departures'[1].arrival_time = Head(packet_queue_).arrival_time
                      /\ packet_in_transit_bytes_left_' = 0]_vars

\* a payload smaller than the cell, queued alone, has departed in the one
\* opportunity its call granted, after waiting in the queue
FragmentationWitness ==
    /\ Len(departures) = 1
    /\ departures[1].size \in 1 .. PACKET_SIZE - 1
    /\ departures[1].departure_time > departures[1].arrival_time
    /\ departures[1].departure_time = base_timestamp_
    /\ grants_in_call = 1
    /\ Len(queue_on_entry) = 1
    /\ output_queue_ = <<queue_on_entry[1].contents>>

(* -------------------------------- C13 ---------------------------------- *)
\* p is the beginning of q
IsPrefix(p, q) == /\ Len(p) <= Len(q)
                  /\ p = SubSeq(q, 1, Len(p))
\* the packets dequeued so far, in the order they were dequeued: those put
\* out, then the one in transit
Dequeued == Output \o InTransit
\* C13: the payloads handed to the writer and those in the Output Buffer are
\* only ever extended at the end, the writer taking the whole buffer from the
\* front; the packets a step dequeues are the front of the packet queue and
\* go behind everything dequeued before, so the payloads are output in the
\* order in which their packets were dequeued.
OutputInDequeueOrder ==
    [][/\ IsPrefix(written, written')
       /\ IsPrefix(Output, Output')
       /\ written' # written => (written' = Output /\ output_queue_' = <<>>)
       /\ IsPrefix(Dequeued, Dequeued')
       /\ LET n == Len(Dequeued') - Len(Dequeued)
          IN  /\ n <= Len(packet_queue_)
              /\ SubSeq(Dequeued', Len(Dequeued) + 1, Len(Dequeued'))
                    = PayloadsOf(SubSeq(packet_queue_, 1, n))]_vars

\* two packets dequeued by one opportunity have been handed to the writer
OutputOrderWitness ==
    /\ ret.kind = "written"
    /\ Len(written) = 2
    /\ written[1].id = 1
    /\ written[2].id = 2
    /\ completed = 1

(* -------------------------------- C14 ---------------------------------- *)
\* what scheduling rests on
scheduling == <<base_timestamp_, delivered_count_, finished_, packet_queue_,
                packet_in_transit_, packet_in_transit_bytes_left_>>
\* C14: write_packets changes nothing scheduling rests on, hands the whole
\* Output Buffer to the writer and leaves it empty; pending_output changes
\* nothing at all and returns true exactly when the Output Buffer is not
\* empty.
NoSchedulingSideEffects ==
    [][/\ ret'.kind = "written"
             => /\ UNCHANGED scheduling
                /\ written' = written \o output_queue_
                /\ output_queue_' = <<>>
       /\ ret'.kind = "pending"
             => /\ UNCHANGED <<scheduling, output_queue_, written, clock>>
                /\ (ret'.val[1] = 1) <=> (output_queue_ # <<>>)
                /\ ret'.val[1] \in {0, 1}]_vars

\* pending_output has answered true while a fragment of the next packet is
\* in transit
PendingOutputWitness ==
    /\ ret.kind = "pending"
    /\ ret.val[1] = 1
    /\ output_queue_ # <<>>
    /\ packet_in_transit_bytes_left_ > 0

(* -------------------------------- C15 ---------------------------------- *)
\* C15: the step that holds the log hook of an opportunity does what the
\* engine without the hook does once line 191 has fixed the delivery time:
\* it grants the opportunity at this_delivery_time and raises no error.
TelemetryObservational ==
    [][(pc = "use" /\ pc' # "use")
          => /\ ret'.kind # "bps0"
             /\ delivered_count_' = delivered_count_ + 1
             /\ base_timestamp_' = this_delivery_time]_vars

(* -------------------------------- C16 ---------------------------------- *)
\* C16: a packet in transit has 0 < bytes_left <= payload size <=
\* PACKET_SIZE, bytes_left = 0 means that no packet is in transit, and no
\* assertion of the rationalize loop is ever false: none has ended the
\* process and none was passed over in a build without assertions.
InTransitAssertionsValid ==
    /\ packet_in_transit_bytes_left_ > 0
          => /\ packet_in_transit_bytes_left_ <= packet_in_transit_.contents.size
             /\ packet_in_transit_.contents.size <= PACKET_SIZE
    /\ packet_in_transit_bytes_left_ = 0 => InTransit = <<>>
    /\ Len(InTransit) <= 1
    /\ pc # "aborted"
    /\ ~ndebug

(* -------------------------------- C17 ---------------------------------- *)
\* the bytes sent so far: the departed packets and the sent part of the
\* packet in transit
Sent == Bytes(Output)
        + (IF packet_in_transit_bytes_left_ > 0
           THEN packet_in_transit_.contents.size - packet_in_transit_bytes_left_
           ELSE 0)
\* C17: bytes are sent only by granting an opportunity, one opportunity sends
\* at most one cell whatever earlier opportunities left unused, and so the
\* bytes sent never exceed one cell for each opportunity granted.
UseItOrLoseIt ==
    [][/\ Sent' - Sent \in 0 .. PACKET_SIZE
       /\ Sent' # Sent => delivered_count_' = delivered_count_ + 1
       /\ Sent' <= PACKET_SIZE * delivered_count_']_vars

\* the first opportunity found the queue empty and the second spent its whole
\* cell, leaving bytes of the packet in transit unsent
ForfeitWitness ==
    /\ delivered_count_ = 2
    /\ completed = 2
    /\ Sent = PACKET_SIZE
    /\ departures # <<>>
    /\ packet_in_transit_bytes_left_ > 0

(* -------------------------------- C18 ---------------------------------- *)
\* C18: the base timestamp, which is the delivery time of the last
\* opportunity granted, is never later than the clock, and an opportunity
\* the running call granted has a delivery time no later than the call's now.
NoFutureDelivery ==
    /\ base_timestamp_ <= clock
    /\ grants_in_call >= 1 => base_timestamp_ <= now
    /\ \A i \in 1 .. Len(departures) :
          departures[i].departure_time <= clock

(* -------------------------------- C19 ---------------------------------- *)
\* C19: whatever nonzero rate is read, the slot of the permutation that
\* holds 0 gets an interval of at least one millisecond, and a call to
\* rationalize grants at most INTERPOLATION_SLOTS opportunities, so its loop
\* ends.
GrantsPerCallBounded ==
    /\ grants_in_call <= INTERPOLATION_SLOTS
    /\ \A r \in rate_values \ {0} :
          \E count \in 0 .. INTERPOLATION_SLOTS - 1 :
              /\ random_permutation_[count] = 0
              /\ DitheredInterval(r, count) >= 1

\* a call has granted INTERPOLATION_SLOTS opportunities, the clock standing
\* still, and has returned
GrantsPerCallWitness ==
    /\ grants_in_call = INTERPOLATION_SLOTS
    /\ ret.kind \in {"wait", "read"}
    /\ clock = now
    /\ base_timestamp_ = now
    /\ base_on_entry < now

(* -------------------------------- C20 ---------------------------------- *)
\* the payloads queued or in transit
Waiting == InTransit \o PayloadsOf(packet_queue_)
\* C20: under the fairness above every packet that is queued or in transit
\* is eventually in what was appended to the Output Buffer, and a packet
\* left in transit by one opportunity departs in the next one granted.
EventualDelivery ==
    /\ \A i \in 1 .. MaxReads : (i \in IdsOf(Waiting)) ~> (i \in IdsOf(Output))
    /\ [][(delivered_count_' = delivered_count_ + 1 /\ packet_in_transit_bytes_left_ > 0)
             => packet_in_transit_.contents.id \in IdsOf(Output')]_vars

====
